---------------------------- MODULE Spec2Model ----------------------------
(***************************************************************************)
(* Model of the Pokemon battle simulator (pokemon-battle.ts),                *)
(* of the schedule importer (build-schedule/index.ts), of the tools of      *)
(* opencontrol/src/tools.ts and of the image build (Dockerfile).            *)
(*                                                                          *)
(* Five specifications share the variables:                                 *)
(*   Spec        battle_pokemon.run, one step per program position          *)
(*   SpecDamage  calculateDamage applied to inputs drawn from bounded sets  *)
(*   SpecImport  insertScheduleData run against a feed that changes         *)
(*   SpecTools   the schedule and Pokemon tools, one step per invocation    *)
(*   SpecBuild   the builder stage's RUN step that creates schedule.db      *)
(*                                                                          *)
(* Numbers.  JavaScript numbers are doubles; every quantity below is an     *)
(* integer small enough to be exact.  The two places where the code         *)
(* multiplies by a fraction and floors are modelled with integer division:  *)
(*   Math.floor(x * 1.5)        = (x * 3) \div 2     (1.5 is exact)         *)
(*   Math.floor(x * (p / 100))  = (x * p) \div 100   (p in 85..100; the     *)
(*       double product floors to the same integer for every x < 2000)      *)
(* An effectiveness (a product of 0.5's, 1's and 2's) is kept as a fraction *)
(* [n, d] in lowest terms with d a power of two.                            *)
(***************************************************************************)
EXTENDS Integers, Sequences, FiniteSets, TLC

VARIABLES
  pc,            \* position of battle_pokemon.run / of the importer
  input,         \* the tool call's arguments {pokemon1, pokemon2, turns}
  pokemon1,      \* first combatant  (record built by fetchPokemonForBattle)
  pokemon2,      \* second combatant
  maxTurns,      \* const maxTurns = input.turns || 10
  currentTurn,   \* let currentTurn
  pokemon1Move,  \* move picked for pokemon1 in the current turn
  pokemon2Move,  \* move picked for pokemon2 in the current turn
  turnEvents,    \* simulateTurn's local `events`
  result,        \* simulateTurn's local `result` (last calculateDamage value)
  damageSteps,   \* the values calculateDamage's local `damage` took (SpecDamage)
  battle_end,    \* the battle_end entry of the battle log
  battleLog,     \* const battleLog: the entries pushed so far
  reportedHp,    \* per combatant, the remaining_hp of the latest logged hit on it
  db,            \* the five tables of schedule.db
  feed,          \* the JSON document the schedule URL currently serves
  importRuns,    \* importer runs: in all, on the feed as it is, and whether one succeeded
  caught_pokemon,  \* the rows of table caught_pokemon
  sqlite_sequence, \* AUTOINCREMENT: the largest id caught_pokemon ever held
  call,          \* the latest tool invocation: tool name and arguments
  nonOkResponse, \* an outbound request of that invocation got a non-2xx response
  returned,      \* what that invocation's run gave its caller
  build          \* the RUN step of the builder stage: runs so far, exit codes

battleVars == <<input, pokemon1, pokemon2, maxTurns, currentTurn,
                pokemon1Move, pokemon2Move, turnEvents, result, damageSteps,
                battle_end, battleLog, reportedHp>>
importVars == <<db, feed, importRuns>>
storeVars == <<caught_pokemon, sqlite_sequence>>
callVars == <<call, nonOkResponse, returned>>
vars == <<pc, input, pokemon1, pokemon2, maxTurns, currentTurn, pokemon1Move,
          pokemon2Move, turnEvents, result, damageSteps, battle_end,
          battleLog, reportedHp, db, feed, importRuns, caught_pokemon, sqlite_sequence, call, nonOkResponse,
          returned, build>>

(***************************************************************************)
(* JavaScript values                                                       *)
(***************************************************************************)
\* A value that may be null or missing is a sequence of length at most one:
\* Absent stands for null and for undefined (the program treats the two alike
\* wherever it tests such a value: ||, ?., truthiness), Some(x) for x.
Absent == << >>
Some(x) == <<x>>
Value(o) == o[1]

\* ToBoolean of an optional number: null, undefined and 0 are falsy
Falsy(o) == o = Absent \/ o = Some(0)

\* a || b, for an optional number a and a number b
OrElse(a, b) == IF Falsy(a) THEN b ELSE Value(a)

Max(a, b) == IF a >= b THEN a ELSE b

(***************************************************************************)
(* Type effectiveness chart.  Entries are stored doubled: 0 -> 0,           *)
(* 0.5 -> 1, 2 -> 4.                                                        *)
(***************************************************************************)
TYPE_EFFECTIVENESS ==
  [ normal   |-> [rock |-> 1, ghost |-> 0, steel |-> 1],
    fire     |-> [fire |-> 1, water |-> 1, grass |-> 4, ice |-> 4, bug |-> 4,
                  rock |-> 1, dragon |-> 1, steel |-> 4],
    water    |-> [fire |-> 4, water |-> 1, grass |-> 1, ground |-> 4,
                  rock |-> 4, dragon |-> 1],
    electric |-> [water |-> 4, electric |-> 1, grass |-> 1, ground |-> 0,
                  flying |-> 4, dragon |-> 1],
    grass    |-> [fire |-> 1, water |-> 4, grass |-> 1, poison |-> 1,
                  ground |-> 4, flying |-> 1, bug |-> 1, rock |-> 4,
                  dragon |-> 1, steel |-> 1],
    ice      |-> [fire |-> 1, water |-> 1, grass |-> 4, ice |-> 1,
                  ground |-> 4, flying |-> 4, dragon |-> 4, steel |-> 1],
    fighting |-> [normal |-> 4, ice |-> 4, poison |-> 1, flying |-> 1,
                  psychic |-> 1, bug |-> 1, rock |-> 4, ghost |-> 0,
                  dark |-> 4, steel |-> 4, fairy |-> 1],
    poison   |-> [grass |-> 4, poison |-> 1, ground |-> 1, rock |-> 1,
                  ghost |-> 1, steel |-> 0, fairy |-> 4],
    ground   |-> [fire |-> 4, electric |-> 4, grass |-> 1, poison |-> 4,
                  flying |-> 0, bug |-> 1, rock |-> 4, steel |-> 4],
    flying   |-> [electric |-> 1, grass |-> 4, fighting |-> 4, bug |-> 4,
                  rock |-> 1, steel |-> 1],
    psychic  |-> [fighting |-> 4, poison |-> 4, psychic |-> 1, dark |-> 0,
                  steel |-> 1],
    bug      |-> [fire |-> 1, grass |-> 4, fighting |-> 1, poison |-> 1,
                  flying |-> 1, psychic |-> 4, ghost |-> 1, dark |-> 4,
                  steel |-> 1, fairy |-> 1],
    rock     |-> [fire |-> 4, ice |-> 4, fighting |-> 1, ground |-> 1,
                  flying |-> 4, bug |-> 4, steel |-> 1],
    ghost    |-> [normal |-> 0, psychic |-> 4, ghost |-> 4, dark |-> 1],
    dragon   |-> [dragon |-> 4, steel |-> 1, fairy |-> 0],
    dark     |-> [fighting |-> 1, psychic |-> 4, ghost |-> 4, dark |-> 1,
                  fairy |-> 1],
    steel    |-> [fire |-> 1, water |-> 1, electric |-> 1, ice |-> 4,
                  rock |-> 4, steel |-> 1, fairy |-> 4],
    fairy    |-> [fighting |-> 4, poison |-> 1, bug |-> 1, dragon |-> 4,
                  dark |-> 4, steel |-> 1] ]

\* whether the chart has an entry for the pair
hasEntry(moveType, defenderType) ==
  /\ moveType \in DOMAIN TYPE_EFFECTIVENESS
  /\ defenderType \in DOMAIN TYPE_EFFECTIVENESS[moveType]

\* TYPE_EFFECTIVENESS[moveType] && TYPE_EFFECTIVENESS[moveType][defenderType]:
\* the entry exists and is truthy (not 0)
entryTruthy(moveType, defenderType) ==
  /\ hasEntry(moveType, defenderType)
  /\ TYPE_EFFECTIVENESS[moveType][defenderType] # 0

(***************************************************************************)
(* Fractions with a power-of-two denominator, in lowest terms              *)
(***************************************************************************)
RECURSIVE Reduce(_)
Reduce(q) ==
  IF q.n = 0 THEN [n |-> 0, d |-> 1]
  ELSE IF q.d > 1 /\ q.n % 2 = 0 THEN Reduce([n |-> q.n \div 2, d |-> q.d \div 2])
  ELSE q

One == [n |-> 1, d |-> 1]

\* q times (e2 / 2), e2 being a doubled table entry
TimesEntry(q, e2) == Reduce([n |-> q.n * e2, d |-> q.d * 2])

\* Math.floor(x * q)
FloorTimes(x, q) == (x * q.n) \div q.d

(***************************************************************************)
(* Stat formulas                                                           *)
(***************************************************************************)
DefaultIV == 31
DefaultEV == 0
BattleLevel == 50

\* Math.floor(((2*base + iv + floor(ev/4)) * level / 100 + 5) * nature),
\* nature = 1 (the only value the program passes)
calculateStat(baseStat, level) ==
  ((2 * baseStat + DefaultIV + (DefaultEV \div 4)) * level) \div 100 + 5

\* Math.floor((2*base + iv + floor(ev/4)) * level / 100) + level + 10
calculateHP(baseHP, level) ==
  ((2 * baseHP + DefaultIV + (DefaultEV \div 4)) * level) \div 100 + level + 10

(***************************************************************************)
(* calculateDamage, step by step                                           *)
(***************************************************************************)
\* const power = move.power || 0
movePower(move) == OrElse(move.power, 0)

\* move.damage_class?.name === 'physical'
isPhysical(move) == move.damage_class = "physical"

attackStat(attacker, move) ==
  IF isPhysical(move) THEN attacker.stats.attack
  ELSE attacker.stats.special_attack

defenseStat(defender, move) ==
  IF isPhysical(move) THEN defender.stats.defense
  ELSE defender.stats.special_defense

\* variant: the stats are subtracted instead of divided
baseDamage_difference(level, power, A, D) ==
  (((2 * level) \div 5 + 2) * power * (A - D)) \div 50 + 2

\* Math.floor(((2 * level / 5 + 2) * power * A / D) / 50) + 2
\* (2 * level / 5 + 2 is an integer for the level the program uses)
baseDamage(level, power, A, D) ==
  (((2 * level) \div 5 + 2) * power * A) \div (D * 50) + 2

\* variant: only the attacker's first type is compared
hasStab_firstTypeOnly(attacker, move) == attacker.types[1] = move.type

\* attacker.types.some(type => type.type.name === move.type.name)
hasStab(attacker, move) ==
  \E i \in 1..Len(attacker.types) : attacker.types[i] = move.type

\* damage = Math.floor(damage * stab), stab = 1.5 or 1
applyStab(damage, attacker, move) ==
  IF hasStab(attacker, move) THEN (damage * 3) \div 2 ELSE damage

\* the forEach over defender.types: an entry multiplies the effectiveness
\* only when it is truthy
RECURSIVE typeEffectiveness(_, _)
typeEffectiveness(moveType, defenderTypes) ==
  IF defenderTypes = << >> THEN One
  ELSE LET k == Len(defenderTypes)
           rest == typeEffectiveness(moveType, SubSeq(defenderTypes, 1, k - 1))
       IN IF entryTruthy(moveType, defenderTypes[k])
          THEN TimesEntry(rest, TYPE_EFFECTIVENESS[moveType][defenderTypes[k]])
          ELSE rest

\* (85 + Math.floor(Math.random() * 16)), the variance in percent
RandomDraws == 0..15

\* variant: the variance starts at 80 percent
randomPercent_from80(r) == 80 + r

randomPercent(r) == 85 + r

\* damage = Math.floor(damage * randomFactor)
applyRandom(damage, r) == (damage * randomPercent(r)) \div 100

\* if (isCritical) damage = Math.floor(damage * 1.5)
applyCritical(damage, isCritical) ==
  IF isCritical THEN (damage * 3) \div 2 ELSE damage

\* The values the local `damage` takes for a move with power: after the base
\* formula, after STAB, after type effectiveness, after the random factor and
\* after the critical-hit step.  r: the variance draw; crit: whether
\* Math.random() < 0.0625.
damageTrace(attacker, defender, move, r, crit) ==
  LET level == OrElse(Some(attacker.level), 50)
      base  == baseDamage(level, movePower(move), attackStat(attacker, move),
                          defenseStat(defender, move))
      d1    == applyStab(base, attacker, move)
      d2    == FloorTimes(d1, typeEffectiveness(move.type, defender.types))
      d3    == applyRandom(d2, r)
  IN <<base, d1, d2, d3, applyCritical(d3, crit)>>

\* variant: no early return for a move without power
calculateDamage_noSkip(attacker, defender, move, r, crit) ==
  [damage |-> damageTrace(attacker, defender, move, r, crit)[5],
   effectiveness |-> typeEffectiveness(move.type, defender.types),
   isCritical |-> crit]

calculateDamage(attacker, defender, move, r, crit) ==
  IF movePower(move) = 0
  THEN [damage |-> 0, effectiveness |-> One, isCritical |-> FALSE]
  ELSE [damage |-> damageTrace(attacker, defender, move, r, crit)[5],
        effectiveness |-> typeEffectiveness(move.type, defender.types),
        isCritical |-> crit]

(***************************************************************************)
(* fetchPokemonForBattle: the record built from the API's answers.         *)
(* pokemonData is the /pokemon/{id} document with its first moves already  *)
(* resolved; types are kept as the list of type names.                     *)
(***************************************************************************)
MovesKept == 4

Take(s, k) == SubSeq(s, 1, IF Len(s) < k THEN Len(s) ELSE k)

fetchPokemonForBattle(pokemonData) ==
  [ name   |-> pokemonData.name,
    types  |-> pokemonData.types,
    level  |-> BattleLevel,
    stats  |-> [ hp              |-> calculateHP(pokemonData.base.hp, BattleLevel),
                 attack          |-> calculateStat(pokemonData.base.attack, BattleLevel),
                 defense         |-> calculateStat(pokemonData.base.defense, BattleLevel),
                 special_attack  |-> calculateStat(pokemonData.base.special_attack, BattleLevel),
                 special_defense |-> calculateStat(pokemonData.base.special_defense, BattleLevel),
                 speed           |-> calculateStat(pokemonData.base.speed, BattleLevel) ],
    current_hp |-> calculateHP(pokemonData.base.hp, BattleLevel),
    moves  |-> Take(pokemonData.moves, MovesKept) ]

(***************************************************************************)
(* The schedule importer (build-schedule/index.ts).                        *)
(*                                                                         *)
(* A table is the set of its rows.  Modelled columns: the keys, the        *)
(* foreign keys and one converted text column (name); the other columns    *)
(* are copies of feed fields without a constraint that the feeds below     *)
(* could break.  Foreign keys are ON and immediate: a statement that leaves *)
(* a row whose non-null foreign key has no parent row fails.               *)
(***************************************************************************)
EmptyDb == [rooms |-> {}, tracks |-> {}, speakers |-> {}, talks |-> {},
            talk_speakers |-> {}]
EmptyFeed == [rooms |-> << >>, tracks |-> << >>, speakers |-> << >>,
              talks |-> << >>]

\* a text of the feed: a plain string or a localized object {en: ...}
Str(x) == [kind |-> "string", text |-> x]
Loc(x) == [kind |-> "localized", en |-> x]

\* typeof name === 'string' ? name : (name && name.en ? name.en : ...)
localName(name) == IF name.kind = "string" THEN name.text ELSE name.en

MaxOf(S) == CHOOSE x \in S : \A y \in S : y <= x

\* the rowid SQLite gives a row inserted with a NULL INTEGER PRIMARY KEY
nextRowid(rows) == IF rows = {} THEN 1 ELSE MaxOf({r.id : r \in rows}) + 1

\* PRAGMA foreign_keys = ON: every foreign key that is not NULL has its parent
foreignKeysHold(d) ==
  /\ \A t \in d.talks :
       /\ \E r \in d.rooms : r.id = t.room
       /\ t.track # Absent => \E k \in d.tracks : k.id = Value(t.track)
  /\ \A a \in d.talk_speakers :
       /\ a.talk_id # Absent => \E t \in d.talks : t.id = Value(a.talk_id)
       /\ \E p \in d.speakers : p.code = a.speaker_code

\* the outcome of a statement: the new tables, or the error that makes
\* db.transaction roll back; a statement that fails changes no row
Done(d) == [ok |-> TRUE, db |-> d]
Failed(d) == [ok |-> FALSE, db |-> d]
statement(before, after) ==
  IF foreignKeysHold(after) THEN Done(after) ELSE Failed(before)

\* INSERT OR REPLACE for a table keyed by INTEGER PRIMARY KEY id: a row with
\* the same id is deleted first; a NULL id gets the next rowid
replaceById(rows, id, row) ==
  IF id = Absent
  THEN rows \cup {[row EXCEPT !.id = nextRowid(rows)]}
  ELSE {r \in rows : r.id # Value(id)} \cup {[row EXCEPT !.id = Value(id)]}

\* variant: the statement does not bind the id, every row gets a new rowid
insertRoom_unkeyed(d, room) ==
  statement(d, [d EXCEPT !.rooms =
    replaceById(d.rooms, Absent, [id |-> 0, name |-> localName(room.name)])])

\* insertRoom.run({$id: room.id, $name: ...})
insertRoom(d, room) ==
  statement(d, [d EXCEPT !.rooms =
    replaceById(d.rooms, room.id, [id |-> 0, name |-> localName(room.name)])])

\* insertTrack.run({$id: track.id, $name: ...})
insertTrack(d, track) ==
  statement(d, [d EXCEPT !.tracks =
    replaceById(d.tracks, track.id, [id |-> 0, name |-> localName(track.name)])])

\* insertSpeaker.run({$code: speaker.code, $name: speaker.name})
insertSpeaker(d, speaker) ==
  statement(d, [d EXCEPT !.speakers =
    {p \in d.speakers : p.code # speaker.code}
      \cup {[code |-> speaker.code, name |-> speaker.name]}])

\* talk.code || null, talk.track || null
codeOrNull(code) == IF code = Absent \/ code = Some("") THEN Absent ELSE code
trackOrNull(track) == IF Falsy(track) THEN Absent ELSE track

\* insertTalk.run({$id: talk.id, $code: talk.code || null, $room: talk.room,
\* $track: talk.track || null}): INSERT OR REPLACE deletes the row with the
\* same id and every row with the same non-null code (code TEXT UNIQUE)
insertTalk(d, talk) ==
  LET code == codeOrNull(talk.code)
      kept == {t \in d.talks : ~(code # Absent /\ t.code = code)}
  IN statement(d, [d EXCEPT !.talks =
       replaceById(kept, talk.id,
                   [id |-> 0, code |-> code, room |-> talk.room,
                    track |-> trackOrNull(talk.track)])])

\* insertTalkSpeaker.run({$talk_id: talk.id, $speaker_code}): INSERT OR
\* IGNORE skips a row whose (talk_id, speaker_code) is already there; a NULL
\* talk_id never counts as already there, so the row is added once more.
\* `copy` tells apart the rows that agree in both columns.
insertTalkSpeaker(d, talk, speakerCode) ==
  LET same == {a \in d.talk_speakers :
                 a.talk_id = talk.id /\ a.speaker_code = speakerCode}
  IN IF talk.id # Absent /\ same # {}
     THEN Done(d)
     ELSE statement(d, [d EXCEPT !.talk_speakers =
            @ \cup {[talk_id |-> talk.id, speaker_code |-> speakerCode,
                     copy |-> Cardinality(same) + 1]}])

\* the for loops of insertScheduleData: one statement per item, in order; the
\* first failure throws, so nothing after it runs
RECURSIVE insertRooms(_, _)
insertRooms(state, rooms) ==
  IF ~state.ok \/ rooms = << >> THEN state
  ELSE insertRooms(insertRoom(state.db, Head(rooms)), Tail(rooms))

RECURSIVE insertTracks(_, _)
insertTracks(state, tracks) ==
  IF ~state.ok \/ tracks = << >> THEN state
  ELSE insertTracks(insertTrack(state.db, Head(tracks)), Tail(tracks))

RECURSIVE insertSpeakers(_, _)
insertSpeakers(state, speakers) ==
  IF ~state.ok \/ speakers = << >> THEN state
  ELSE insertSpeakers(insertSpeaker(state.db, Head(speakers)), Tail(speakers))

\* the inner loop over talk.speakers
RECURSIVE insertTalkSpeakers(_, _, _)
insertTalkSpeakers(state, talk, speakerCodes) ==
  IF ~state.ok \/ speakerCodes = << >> THEN state
  ELSE insertTalkSpeakers(insertTalkSpeaker(state.db, talk, Head(speakerCodes)),
                          talk, Tail(speakerCodes))

\* the talks loop: each talk, then its speaker associations
RECURSIVE insertTalks(_, _)
insertTalks(state, talks) ==
  IF ~state.ok \/ talks = << >> THEN state
  ELSE insertTalks(insertTalkSpeakers(insertTalk(state.db, Head(talks)),
                                      Head(talks), Head(talks).speakers),
                   Tail(talks))

\* variant: what the inserts did before the failure is kept
transaction_noRollback(before, outcome) == outcome

\* db.transaction(...): COMMIT when the function returns, ROLLBACK to the
\* tables as they were before it when it throws
transaction(before, outcome) ==
  IF outcome.ok THEN outcome ELSE Failed(before)

\* variant: the talks loop runs first
insertScheduleData_talksFirst(d, data) ==
  LET afterTalks    == insertTalks(Done(d), data.talks)
      afterRooms    == insertRooms(afterTalks, data.rooms)
      afterTracks   == insertTracks(afterRooms, data.tracks)
      afterSpeakers == insertSpeakers(afterTracks, data.speakers)
  IN transaction(d, afterSpeakers)

\* the function given to db.transaction: rooms, tracks, speakers, then talks,
\* each talk followed by its speaker associations
insertScheduleData(d, data) ==
  LET afterRooms    == insertRooms(Done(d), data.rooms)
      afterTracks   == insertTracks(afterRooms, data.tracks)
      afterSpeakers == insertSpeakers(afterTracks, data.speakers)
      afterTalks    == insertTalks(afterSpeakers, data.talks)
  IN transaction(d, afterTalks)

(***************************************************************************)
(* SpecImport: the feed is edited upstream, the importer runs against it   *)
(***************************************************************************)
MaxFeedRows == 2
MaxImports == 3

FeedRooms == { [id |-> Some(1), name |-> Str("Hall A")],
               [id |-> Some(1), name |-> Loc("Hall B")],
               [id |-> Absent, name |-> Str("Foyer")] }
FeedTracks == { [id |-> Some(1), name |-> Loc("PyData")] }
FeedSpeakers == { [code |-> "SPK1", name |-> "Ada"] }
FeedTalks ==
  { [id |-> Some(1), code |-> Some("TALK1"), room |-> 1, track |-> Some(1),
     speakers |-> <<"SPK1">>],
    [id |-> Some(2), code |-> Some("TALK1"), room |-> 1, track |-> Some(1),
     speakers |-> << >>],
    [id |-> Some(2), code |-> Absent, room |-> 1, track |-> Absent,
     speakers |-> <<"SPK1">>],
    [id |-> Absent, code |-> Absent, room |-> 1, track |-> Absent,
     speakers |-> <<"SPK1">>] }

ImportIdle ==
  /\ db = EmptyDb
  /\ feed = EmptyFeed
  /\ importRuns = [count |-> 0, onFeed |-> 0, succeeded |-> FALSE]

BattleIdle ==
  /\ input = Absent
  /\ pokemon1 = Absent
  /\ pokemon2 = Absent
  /\ maxTurns = 0
  /\ currentTurn = 0
  /\ pokemon1Move = Absent
  /\ pokemon2Move = Absent
  /\ turnEvents = << >>
  /\ result = Absent
  /\ damageSteps = << >>
  /\ battle_end = Absent
  /\ battleLog = << >>
  /\ reportedHp = <<Absent, Absent>>

\* no tool has been invoked, nothing has been caught
ToolsIdle ==
  /\ caught_pokemon = {}
  /\ sqlite_sequence = 0
  /\ call = Absent
  /\ nonOkResponse = FALSE
  /\ returned = Absent

\* the RUN step has not started
BuildIdle == build = [runs |-> 0, exits |-> << >>, step |-> "pending"]

InitImport ==
  /\ pc = "import"
  /\ BattleIdle
  /\ ImportIdle
  /\ ToolsIdle
  /\ BuildIdle

Range(seq) == {seq[i] : i \in 1..Len(seq)}

\* upstream publishes one more entry of a list of the feed (an entry is not
\* listed twice)
Publish(list, entries) ==
  /\ Len(feed[list]) < MaxFeedRows
  /\ \E e \in entries \ Range(feed[list]) :
       feed' = [feed EXCEPT ![list] = Append(@, e)]
  /\ importRuns' = [importRuns EXCEPT !.onFeed = 0, !.succeeded = FALSE]
  /\ UNCHANGED <<pc, db>>
  /\ UNCHANGED battleVars
  /\ UNCHANGED <<storeVars, callVars, build>>

PublishRoom == Publish("rooms", FeedRooms)
PublishTrack == Publish("tracks", FeedTracks)
PublishSpeaker == Publish("speakers", FeedSpeakers)
PublishTalk == Publish("talks", FeedTalks)

\* upstream withdraws the latest talk
RetractTalk ==
  /\ feed.talks # << >>
  /\ feed' = [feed EXCEPT !.talks = SubSeq(@, 1, Len(@) - 1)]
  /\ importRuns' = [importRuns EXCEPT !.onFeed = 0, !.succeeded = FALSE]
  /\ UNCHANGED <<pc, db>>
  /\ UNCHANGED battleVars
  /\ UNCHANGED <<storeVars, callVars, build>>

\* one run of the importer: fetchAndImportSchedule(scheduleUrl)
Import ==
  /\ importRuns.count < MaxImports
  /\ LET outcome == insertScheduleData(db, feed)
     IN /\ db' = outcome.db
        /\ importRuns' = [count |-> importRuns.count + 1,
                          onFeed |-> importRuns.onFeed + 1,
                          succeeded |-> importRuns.succeeded \/ outcome.ok]
  /\ UNCHANGED <<pc, feed>>
  /\ UNCHANGED battleVars
  /\ UNCHANGED <<storeVars, callVars, build>>

NextImport ==
  \/ PublishRoom
  \/ PublishTrack
  \/ PublishSpeaker
  \/ PublishTalk
  \/ RetractTalk
  \/ Import

SpecImport == InitImport /\ [][NextImport]_vars

(***************************************************************************)
(* Properties of the importer (specification SpecImport)                   *)
(***************************************************************************)
\* the step is a run of the importer
ImportRun == importRuns'.count = importRuns.count + 1

\* every room, track and talk of the feed carries an id
FeedHasIds ==
  /\ \A i \in 1..Len(feed.rooms) : feed.rooms[i].id # Absent
  /\ \A i \in 1..Len(feed.tracks) : feed.tracks[i].id # Absent
  /\ \A i \in 1..Len(feed.talks) : feed.talks[i].id # Absent

ImportFails == ImportRun /\ ~insertScheduleData(db, feed).ok

\* C19: insertScheduleData is all-or-nothing: when an insert of an import
\* fails, none of that import's inserts are kept and the five tables are
\* left exactly as they were before the import started
C19_FailedImportChangesNothing ==
  [][ImportFails => db' = db]_vars

\* the feed as it is was imported and the import failed at a talk, after its
\* room inserts had changed the rooms table
C19_Witness ==
  /\ importRuns.onFeed >= 1
  /\ ~insertScheduleData(db, feed).ok
  /\ insertRooms(Done(db), feed.rooms).ok
  /\ insertRooms(Done(db), feed.rooms).db # db

\* every talk of the feed has its room, its track and its speakers in the
\* feed, and no two talks of the feed share a code
FeedSelfContained ==
  /\ FeedHasIds
  /\ \A i \in 1..Len(feed.talks) :
       LET talk == feed.talks[i]
       IN /\ \E j \in 1..Len(feed.rooms) : feed.rooms[j].id = Some(talk.room)
          /\ trackOrNull(talk.track) # Absent =>
               \E j \in 1..Len(feed.tracks) : feed.tracks[j].id = talk.track
          /\ \A k \in 1..Len(talk.speakers) :
               \E j \in 1..Len(feed.speakers) :
                 feed.speakers[j].code = talk.speakers[k]
          /\ \A j \in 1..Len(feed.talks) :
               (j # i /\ talk.code # Absent) => feed.talks[j].code # talk.code

\* every talks row has its room and, when track is not NULL, its track
TalksReferToParents(d) ==
  \A t \in d.talks :
    /\ t.room \in {r.id : r \in d.rooms}
    /\ t.track # Absent => Value(t.track) \in {k.id : k \in d.tracks}

\* every talk_speakers row has its talks row and its speakers row
ReferencesExist(d) ==
  /\ TalksReferToParents(d)
  /\ \A a \in d.talk_speakers :
       /\ a.talk_id \in {Some(t.id) : t \in d.talks}
       /\ a.speaker_code \in {p.code : p \in d.speakers}

\* the same, for the talk_speakers rows whose talk_id is not NULL
NonNullReferencesExist(d) ==
  /\ TalksReferToParents(d)
  /\ \A a \in d.talk_speakers :
       /\ a.talk_id # Absent => a.talk_id \in {Some(t.id) : t \in d.talks}
       /\ a.speaker_code \in {p.code : p \in d.speakers}

\* rooms, tracks and speakers go in before any talk, each talk before its
\* speaker associations: a self-contained feed is imported into the empty
\* tables without a foreign key failure
ParentsInsertedFirst ==
  (ImportRun /\ db = EmptyDb /\ FeedSelfContained) =>
    /\ importRuns'.succeeded
    /\ Len(feed.talks) > 0 => db'.talks # {}

main(d, data, responseOk) ==
  LET outcome == IF responseOk THEN insertScheduleData(d, data) ELSE Failed(d)
  IN [exit |-> IF outcome.ok THEN 0 ELSE 1, db |-> outcome.db]

\* variant: the right-hand side runs whatever the left-hand side's exit code
orElseRuns_always(exit) == TRUE

\* the shell's `a || b`: b runs when a's exit code is not 0
orElseRuns(exit) == exit # 0

InitBuild ==
  /\ pc = "build"
  /\ BattleIdle
  /\ ImportIdle
  /\ ToolsIdle
  /\ BuildIdle

\* the importer ran: the bookkeeping of Import
ranImport(exit) ==
  [count |-> importRuns.count + 1,
   onFeed |-> importRuns.onFeed + 1,
   succeeded |-> importRuns.succeeded \/ exit = 0]

\* `bun run index.ts`, left of ||
RunImport ==
  /\ build.step = "pending"
  /\ \E responseOk \in BOOLEAN :
       LET m == main(db, feed, responseOk)
       IN /\ db' = m.db
          /\ importRuns' = ranImport(m.exit)
          /\ build' = [runs |-> 1, exits |-> <<m.exit>>,
                       step |-> IF orElseRuns(m.exit) THEN "retrying"
                                                      ELSE "passed"]
  /\ UNCHANGED <<pc, feed>>
  /\ UNCHANGED battleVars
  /\ UNCHANGED <<storeVars, callVars>>

\* (echo "Retrying database creation..." && bun run index.ts): the exit code
\* of the second run is the exit code of the RUN step
RetryImport ==
  /\ build.step = "retrying"
  /\ \E responseOk \in BOOLEAN :
       LET m == main(db, feed, responseOk)
       IN /\ db' = m.db
          /\ importRuns' = ranImport(m.exit)
          /\ build' = [runs |-> build.runs + 1,
                       exits |-> Append(build.exits, m.exit),
                       step |-> IF m.exit = 0 THEN "passed" ELSE "failed"]
  /\ UNCHANGED <<pc, feed>>
  /\ UNCHANGED battleVars
  /\ UNCHANGED <<storeVars, callVars>>

NextBuild ==
  \/ PublishRoom
  \/ PublishTrack
  \/ PublishSpeaker
  \/ PublishTalk
  \/ RetractTalk
  \/ RunImport
  \/ RetryImport

SpecBuild == InitBuild /\ [][NextBuild]_vars

(***************************************************************************)
(* Properties of the build step (specification SpecBuild)                  *)
(***************************************************************************)
StepOver == build.step \in {"passed", "failed"}

\* C15: the schedule import is retried exactly once on failure by re-running
\* the whole import: it runs a second time if and only if the first run
\* exited with a failure, it never runs a third time, and when the second
\* run also fails the build step fails
C15_RetriedExactlyOnce ==
  /\ build.runs <= 2
  /\ build.runs = 2 => build.exits[1] # 0
  /\ (StepOver /\ build.exits[1] # 0) => build.runs = 2
  /\ build.step = "failed" <=> (build.runs = 2 /\ build.exits[2] # 0)
  /\ build.step = "passed" => build.exits[build.runs] = 0

\* the first run failed, the feed changed upstream, the second run ran
\* against the changed feed and failed too: the step failed
C15_Witness ==
  /\ build.step = "failed"
  /\ build.exits = <<1, 1>>
  /\ importRuns.onFeed = 1
  /\ feed.talks # << >>

(***************************************************************************)
(* The Pokemon the battle specification fetches: the /pokemon/{name}        *)
(* documents of a small Pokedex, moves resolved.  A status move has power   *)
(* null; "celebrate" is given power 0.                                      *)
(***************************************************************************)
Move(n, p, t, c) == [name |-> n, power |-> p, type |-> t, damage_class |-> c]

Pokedex ==
  [ rattata |->
      [name |-> "rattata", types |-> <<"normal">>,
       base |-> [hp |-> 30, attack |-> 56, defense |-> 35,
                 special_attack |-> 25, special_defense |-> 35, speed |-> 72],
       moves |-> << Move("hyper-fang", Some(80), "normal", "physical") >>],
    gastly |->
      [name |-> "gastly", types |-> <<"ghost", "poison">>,
       base |-> [hp |-> 30, attack |-> 35, defense |-> 30,
                 special_attack |-> 100, special_defense |-> 35, speed |-> 80],
       moves |-> << Move("shadow-ball", Some(80), "ghost", "special") >>],
    magikarp |->
      [name |-> "magikarp", types |-> <<"water">>,
       base |-> [hp |-> 20, attack |-> 10, defense |-> 55,
                 special_attack |-> 15, special_defense |-> 20, speed |-> 80],
       moves |-> << Move("splash", Absent, "normal", "status"),
                    Move("celebrate", Some(0), "normal", "status"),
                    Move("harden", Absent, "normal", "status"),
                    Move("growl", Absent, "normal", "status"),
                    Move("hydro-pump", Some(110), "water", "special") >>] ]

MaxTurnsArg == 2
TurnsArgs == {Absent} \cup {Some(n) : n \in -1..MaxTurnsArg}

DefaultTurns == 10

(***************************************************************************)
(* battle_pokemon.run                                                      *)
(***************************************************************************)
\* variant: a Pokemon counts as fainted only below 0
fainted_belowZero(p) == p.current_hp < 0

\* the faint test `x.current_hp <= 0`; the guards `x.current_hp > 0` are its
\* negation
fainted(p) == p.current_hp <= 0

\* variant: strict comparison, a tie lets the defender go first
attackerFirst_strict(attacker, defender) ==
  attacker.stats.speed > defender.stats.speed

\* const attackerFirst = attacker.stats.speed >= defender.stats.speed
attackerFirst(attacker, defender) == attacker.stats.speed >= defender.stats.speed

\* 1 when pokemon1 is simulateTurn's `first`, 2 when pokemon2 is
firstIdx == IF attackerFirst(pokemon1, pokemon2) THEN 1 ELSE 2
secondIdx == 3 - firstIdx

Combatant(i) == IF i = 1 THEN pokemon1 ELSE pokemon2
MoveOf(i) == IF i = 1 THEN pokemon1Move ELSE pokemon2Move

\* the effectiveness text of an event
effectivenessText(e) ==
  IF e = [n |-> 2, d |-> 1] THEN "It's super effective!"
  ELSE IF e = [n |-> 1, d |-> 2] THEN "It's not very effective..."
  ELSE IF e = [n |-> 0, d |-> 1] THEN "It has no effect..."
  ELSE ""

\* variant: the subtraction without the clamp at 0
applyDamage_unclamped(hp, damage) == hp - damage

\* x.current_hp = Math.max(0, x.current_hp - result.damage)
applyDamage(hp, damage) == Max(0, hp - damage)

\* One attack of simulateTurn: combatant a uses its move on combatant b.
\* `by` is not in the program's event: it records which combatant attacked,
\* since two combatants may carry the same name.
Attack(a, b, r, crit) ==
  LET res == calculateDamage(Combatant(a), Combatant(b), MoveOf(a), r, crit)
      hp  == applyDamage(Combatant(b).current_hp, res.damage)
      ev  == [by |-> a,
              attacker |-> Combatant(a).name,
              defender |-> Combatant(b).name,
              move |-> MoveOf(a).name,
              damage |-> res.damage,
              effectiveness |-> effectivenessText(res.effectiveness),
              critical |-> IF res.isCritical THEN "Critical hit!" ELSE "",
              remaining_hp |-> hp,
              fainted |-> hp <= 0]
      msg == [message |-> "fainted!", name |-> Combatant(b).name]
  IN /\ result' = res
     /\ pokemon1' = IF b = 1 THEN [pokemon1 EXCEPT !.current_hp = hp] ELSE pokemon1
     /\ pokemon2' = IF b = 2 THEN [pokemon2 EXCEPT !.current_hp = hp] ELSE pokemon2
     /\ turnEvents' = IF hp <= 0 THEN turnEvents \o <<ev, msg>>
                                 ELSE Append(turnEvents, ev)

\* What the API answers to the requests of one fetchPokemonForBattle call:
\* the /pokemon request gets a 2xx response or not; each move request gets
\* "ok" (2xx, the move document), "error_json" (non-2xx, the body a JSON error
\* object) or "error_text" (non-2xx, the body not JSON).  At most
\* MaxBadAnswers move requests of a call get a non-2xx response.
MaxBadAnswers == 1
MoveAnswers == {"ok", "error_json", "error_text"}

Answers(pokemonData) ==
  {[pokemon_ok |-> FALSE, moves |-> << >>]}
  \cup {[pokemon_ok |-> TRUE, moves |-> m] :
          m \in {s \in [1..Len(Take(pokemonData.moves, MovesKept)) -> MoveAnswers] :
                   Cardinality({i \in DOMAIN s : s[i] # "ok"}) <= MaxBadAnswers}}

\* a response of the call was not 2xx
hasNonOk(answer) ==
  ~answer.pokemon_ok \/ \E i \in DOMAIN answer.moves : answer.moves[i] # "ok"

\* a JSON error object read as a move: it has none of a move's fields, so
\* power is undefined; name is written "" and type and damage_class, which
\* calculateDamage does not read when power is falsy, likewise
ErrorBody == Move("", Absent, "", "")

\* return await moveResponse.json(), for each kept move: the status of
\* moveResponse is not looked at
moveDocuments(moves, answers) ==
  [i \in 1..Len(answers) |-> IF answers[i] = "ok" THEN moves[i] ELSE ErrorBody]

\* fetchPokemonForBattle under the answers of the API: Absent when it throws
\* (the /pokemon response is not ok, or a move body does not parse)
fetchPokemonForBattleWith(pokemonData, answer) ==
  IF \/ ~answer.pokemon_ok
     \/ \E i \in DOMAIN answer.moves : answer.moves[i] = "error_text"
  THEN Absent
  ELSE Some(fetchPokemonForBattle(
              [pokemonData EXCEPT
                 !.moves = moveDocuments(Take(@, MovesKept), answer.moves)]))

\* what a tool's run gives its caller: a returned object {success, results}
\* (results stands for the payload), or an exception
Success(results) == Some([kind |-> "return", success |-> TRUE, results |-> results])
Failure == Some([kind |-> "return", success |-> FALSE, results |-> << >>])
Thrown == Some([kind |-> "throw", success |-> FALSE, results |-> << >>])

\* battleLog.push({type: "battle_start", pokemon1: {...}, pokemon2: {...}})
battleStartEntry(p1, p2) ==
  [type |-> "battle_start",
   pokemon1 |-> [name |-> p1.name, hp |-> p1.current_hp],
   pokemon2 |-> [name |-> p2.name, hp |-> p2.current_hp]]

\* the attack events of a list of turn events (the others are the
\* "fainted!" messages)
attackEvents(events) ==
  {k \in DOMAIN events : "remaining_hp" \in DOMAIN events[k]}

\* battleLog.push({type: "turn", turn: currentTurn, events: turnEvents});
\* of the events the entry keeps whether one of them has fainted: true
turnEntry(turn, events) ==
  [type |-> "turn",
   turn |-> turn,
   fainted |-> \E k \in attackEvents(events) : events[k].fainted]

\* the remaining_hp the events of a turn report last for combatant i, or
\* `before` when no event of the turn has i as its defender
lastRemainingHp(events, i, before) ==
  LET hits == {k \in attackEvents(events) : events[k].by # i}
  IN IF hits = {} THEN before
     ELSE Some(events[MaxOf(hits)].remaining_hp)

\* the call: both Pokemon are fetched, one after the other; when a fetch
\* throws the catch block returns {success: false, error}; otherwise maxTurns
\* is set and battle_start is logged
BattleStart ==
  /\ pc = "idle"
  /\ \E n1 \in DOMAIN Pokedex, n2 \in DOMAIN Pokedex, t \in TurnsArgs :
       \E a1 \in Answers(Pokedex[n1]), a2 \in Answers(Pokedex[n2]) :
         LET p1 == fetchPokemonForBattleWith(Pokedex[n1], a1)
             p2 == fetchPokemonForBattleWith(Pokedex[n2], a2)
         IN /\ input' = [pokemon1 |-> n1, pokemon2 |-> n2, turns |-> t]
            /\ call' = Some([tool |-> "battle_pokemon"])
            /\ IF p1 = Absent
               THEN /\ nonOkResponse' = hasNonOk(a1)
                    /\ pokemon1' = Absent
                    /\ pokemon2' = Absent
               ELSE /\ nonOkResponse' = (hasNonOk(a1) \/ hasNonOk(a2))
                    /\ pokemon1' = IF p2 = Absent THEN Absent ELSE Value(p1)
                    /\ pokemon2' = IF p2 = Absent THEN Absent ELSE Value(p2)
            /\ IF p1 = Absent \/ p2 = Absent
               THEN /\ maxTurns' = 0
                    /\ currentTurn' = 0
                    /\ battleLog' = << >>
                    /\ returned' = Failure
                    /\ pc' = "failed"
               ELSE /\ maxTurns' = OrElse(t, DefaultTurns)
                    /\ currentTurn' = 1
                    /\ battleLog' = <<battleStartEntry(Value(p1), Value(p2))>>
                    /\ returned' = Absent
                    /\ pc' = "loop"
  /\ reportedHp' = <<Absent, Absent>>
  /\ pokemon1Move' = Absent
  /\ pokemon2Move' = Absent
  /\ turnEvents' = << >>
  /\ result' = Absent
  /\ battle_end' = Absent
  /\ UNCHANGED damageSteps
  /\ UNCHANGED importVars
  /\ UNCHANGED <<storeVars, build>>

\* while (currentTurn <= maxTurns && pokemon1.current_hp > 0 && ...)
loopGuard ==
  /\ currentTurn <= maxTurns
  /\ ~fainted(pokemon1)
  /\ ~fainted(pokemon2)

\* the loop body up to the call of simulateTurn: a random move each
SelectMoves ==
  /\ pc = "loop"
  /\ loopGuard
  /\ \E i \in 1..Len(pokemon1.moves), j \in 1..Len(pokemon2.moves) :
       /\ pokemon1Move' = pokemon1.moves[i]
       /\ pokemon2Move' = pokemon2.moves[j]
  /\ turnEvents' = << >>
  /\ result' = Absent
  /\ pc' = "first"
  /\ UNCHANGED <<input, pokemon1, pokemon2, maxTurns, currentTurn,
                 damageSteps, battle_end, battleLog, reportedHp>>
  /\ UNCHANGED importVars
  /\ UNCHANGED <<storeVars, callVars, build>>

\* simulateTurn, "First Pokemon's turn"
FirstAttack ==
  /\ pc = "first"
  /\ IF ~fainted(Combatant(firstIdx))
     THEN \E r \in RandomDraws, crit \in BOOLEAN :
            /\ Attack(firstIdx, secondIdx, r, crit)
            \* if (second.current_hp <= 0) { ...; return events }
            /\ pc' = IF fainted(Combatant(secondIdx))' THEN "turn_end"
                                                       ELSE "second"
     ELSE /\ pc' = "second"
          /\ UNCHANGED <<pokemon1, pokemon2, turnEvents, result>>
  /\ UNCHANGED <<input, maxTurns, currentTurn, pokemon1Move, pokemon2Move,
                 damageSteps, battle_end, battleLog, reportedHp>>
  /\ UNCHANGED importVars
  /\ UNCHANGED <<storeVars, callVars, build>>

\* simulateTurn, "Second Pokemon's turn"
SecondAttack ==
  /\ pc = "second"
  /\ IF ~fainted(Combatant(secondIdx))
     THEN \E r \in RandomDraws, crit \in BOOLEAN :
            Attack(secondIdx, firstIdx, r, crit)
     ELSE UNCHANGED <<pokemon1, pokemon2, turnEvents, result>>
  /\ pc' = "turn_end"
  /\ UNCHANGED <<input, maxTurns, currentTurn, pokemon1Move, pokemon2Move,
                 damageSteps, battle_end, battleLog, reportedHp>>
  /\ UNCHANGED importVars
  /\ UNCHANGED <<storeVars, callVars, build>>

\* the turn entry is logged, currentTurn++, break when a Pokemon fainted
TurnEnd ==
  /\ pc = "turn_end"
  /\ currentTurn' = currentTurn + 1
  /\ pc' = IF fainted(pokemon1) \/ fainted(pokemon2) THEN "result" ELSE "loop"
  /\ turnEvents' = << >>
  /\ result' = Absent
  /\ pokemon1Move' = Absent
  /\ pokemon2Move' = Absent
  /\ battleLog' = Append(battleLog, turnEntry(currentTurn, turnEvents))
  /\ reportedHp' = <<lastRemainingHp(turnEvents, 1, reportedHp[1]),
                     lastRemainingHp(turnEvents, 2, reportedHp[2])>>
  /\ UNCHANGED <<input, pokemon1, pokemon2, maxTurns, damageSteps, battle_end>>
  /\ UNCHANGED importVars
  /\ UNCHANGED <<storeVars, callVars, build>>

\* the while condition is false
LoopExit ==
  /\ pc = "loop"
  /\ ~loopGuard
  /\ pc' = "result"
  /\ UNCHANGED battleVars
  /\ UNCHANGED <<storeVars, callVars, build>>
  /\ UNCHANGED importVars
  /\ UNCHANGED <<storeVars, callVars, build>>

\* variant: >= in the comparison of the remaining hit points
battleWinner_geq(p1, p2) ==
  IF fainted(p1) /\ fainted(p2) THEN "draw"
  ELSE IF fainted(p1) THEN p2.name
  ELSE IF fainted(p2) THEN p1.name
  ELSE IF p1.current_hp >= p2.current_hp THEN p1.name
  ELSE IF p2.current_hp > p1.current_hp THEN p2.name
  ELSE "draw"

\* "Battle results": the if/else chain that sets `winner`
battleWinner(p1, p2) ==
  IF fainted(p1) /\ fainted(p2) THEN "draw"
  ELSE IF fainted(p1) THEN p2.name
  ELSE IF fainted(p2) THEN p1.name
  ELSE IF p1.current_hp > p2.current_hp THEN p1.name
  ELSE IF p2.current_hp > p1.current_hp THEN p2.name
  ELSE "draw"

\* variant: the turn counter as it stands after the loop
turnsSimulated_counter(turn) == turn

\* turns_simulated: currentTurn - 1
turnsSimulated(turn) == turn - 1

\* battleLog.push({type: "battle_end", turns_simulated, winner, ...})
battleEndEntry(turn, p1, p2) ==
  [type |-> "battle_end",
   turns_simulated |-> turnsSimulated(turn),
   winner |-> battleWinner(p1, p2),
   pokemon1_hp |-> p1.current_hp,
   pokemon2_hp |-> p2.current_hp]

\* generateBattleSummary, its "Battle result" lines: the winner is looked up
\* by comparing battle_end.winner with pokemon1.name
generateBattleSummary(log, p1, p2) ==
  LET end == log[Len(log)]
      winner == IF end.winner = p1.name THEN p1 ELSE p2
      winnerHp == IF end.winner = p1.name THEN end.pokemon1_hp
                                          ELSE end.pokemon2_hp
      winnerMaxHp == IF end.winner = p1.name THEN p1.stats.hp ELSE p2.stats.hp
  IN IF end.winner # "draw"
     THEN [result |-> end.winner,
           remaining |-> Some([name |-> winner.name,
                               winnerHp |-> winnerHp,
                               winnerMaxHp |-> winnerMaxHp])]
     ELSE [result |-> "draw", remaining |-> Absent]

\* the battle_end entry is logged and the tool returns {success: true, ...}
BattleEnd ==
  /\ pc = "result"
  /\ battle_end' = Some([turns_simulated |-> turnsSimulated(currentTurn),
                         winner |-> battleWinner(pokemon1, pokemon2),
                         pokemon1_hp |-> pokemon1.current_hp,
                         pokemon2_hp |-> pokemon2.current_hp])
  /\ battleLog' = Append(battleLog,
                         battleEndEntry(currentTurn, pokemon1, pokemon2))
  /\ returned' = Success(<<generateBattleSummary(battleLog', pokemon1,
                                                pokemon2)>>)
  /\ pc' = "done"
  /\ UNCHANGED <<input, pokemon1, pokemon2, maxTurns, currentTurn,
                 pokemon1Move, pokemon2Move, turnEvents, result, damageSteps,
                 reportedHp>>
  /\ UNCHANGED importVars
  /\ UNCHANGED <<storeVars, call, nonOkResponse, build>>

Init ==
  /\ pc = "idle"
  /\ BattleIdle
  /\ ImportIdle
  /\ ToolsIdle
  /\ BuildIdle

Next ==
  \/ BattleStart
  \/ SelectMoves
  \/ FirstAttack
  \/ SecondAttack
  \/ TurnEnd
  \/ LoopExit
  \/ BattleEnd

Spec == Init /\ [][Next]_vars

(***************************************************************************)
(* Properties of the battle (specification Spec)                           *)
(***************************************************************************)
InBattle == pc \in {"loop", "first", "second", "turn_end", "result", "done"}

\* the step appends an attack event of combatant a
AttackBy(a) ==
  /\ Len(turnEvents') > Len(turnEvents)
  /\ turnEvents'[Len(turnEvents) + 1].by = a

\* the turn cap the caller configured: `turns` when given, 10 when omitted
ConfiguredCap ==
  IF input.turns = Absent THEN 10 ELSE Value(input.turns)

\* C1: whatever `turns` is (0, negative, omitted), the number of turns
\* simulated that battle_end reports never exceeds the configured turn cap,
\* i.e. `turns` when it is given and 10 when it is omitted
C1_TurnsWithinConfiguredCap ==
  pc = "done" => Value(battle_end).turns_simulated <= ConfiguredCap

\* C2: a combatant whose current_hp has reached 0 is never again the attacker
\* of an attack event, in the same turn or in a later one
C2_FaintedNeverAttacks ==
  [][\A a \in {1, 2} :
       (InBattle /\ Combatant(a).current_hp <= 0) => ~AttackBy(a)]_vars

\* a turn ended early: the second combatant fainted and did not attack
C2_Witness ==
  /\ pc = "turn_end"
  /\ Combatant(secondIdx).current_hp = 0
  /\ Len(turnEvents) = 2
  /\ turnEvents[1].by = firstIdx

ZeroPower(move) == move.power = Absent \/ move.power = Some(0)

\* C4: an attack with a move whose power is 0, null or missing yields damage
\* 0, effectiveness 1 and no critical hit, and leaves the defender's
\* current_hp as it was
C4_ZeroPowerNoDamage ==
  [][\A a \in {1, 2} :
       (AttackBy(a) /\ ZeroPower(MoveOf(a))) =>
         /\ result' = [damage |-> 0, effectiveness |-> [n |-> 1, d |-> 1],
                       isCritical |-> FALSE]
         /\ Combatant(3 - a)'.current_hp = Combatant(3 - a).current_hp
         /\ turnEvents'[Len(turnEvents) + 1].damage = 0]_vars

\* both kinds of powerless move were used in a turn: power null and power 0
C4_Witness ==
  /\ pc = "turn_end"
  /\ Len(turnEvents) = 2
  /\ turnEvents[1].move = "celebrate" /\ turnEvents[1].damage = 0
  /\ turnEvents[2].move = "splash" /\ turnEvents[2].damage = 0
  /\ pokemon1.current_hp = pokemon1.stats.hp

\* C7: in every turn the combatant with the strictly higher speed attacks
\* first, and on equal speed pokemon1 does
C7_FasterAttacksFirst ==
  pc \in {"second", "turn_end"} =>
    /\ Len(turnEvents) >= 1
    /\ turnEvents[1].by =
         (IF pokemon1.stats.speed > pokemon2.stats.speed THEN 1
          ELSE IF pokemon2.stats.speed > pokemon1.stats.speed THEN 2
          ELSE 1)

\* two different species of equal speed: pokemon1 attacked first
C7_Witness ==
  /\ pc = "second"
  /\ pokemon1.name # pokemon2.name
  /\ pokemon1.stats.speed = pokemon2.stats.speed
  /\ turnEvents[1].by = 1

\* C8: the reported winner is the combatant with the strictly higher
\* remaining current_hp, and the result is "draw" exactly when the two are
\* equal
C8_WinnerHasMoreHp ==
  pc = "done" =>
    /\ pokemon1.current_hp > pokemon2.current_hp
         => Value(battle_end).winner = pokemon1.name
    /\ pokemon2.current_hp > pokemon1.current_hp
         => Value(battle_end).winner = pokemon2.name
    /\ Value(battle_end).winner = "draw"
         <=> pokemon1.current_hp = pokemon2.current_hp

\* a battle that reached the cap with both standing, decided on hit points
C8_Witness ==
  /\ pc = "done"
  /\ pokemon1.current_hp > 0
  /\ pokemon2.current_hp > pokemon1.current_hp
  /\ pokemon2.current_hp < pokemon2.stats.hp
  /\ Value(battle_end).winner = pokemon2.name

\* C9: when battle_end is written some combatant has current_hp 0 or
\* turns_simulated equals the turn cap, and no turn starts once a combatant's
\* current_hp has reached 0
C9_EndsAtCapOrFaint ==
  /\ pc = "done" =>
       \/ pokemon1.current_hp = 0
       \/ pokemon2.current_hp = 0
       \/ Value(battle_end).turns_simulated = ConfiguredCap
  /\ pc = "first" => pokemon1.current_hp > 0 /\ pokemon2.current_hp > 0

\* C16: a non-2xx response to any outbound request of battle_pokemon, the
\* per-move requests of fetchPokemonForBattle included, makes the tool return
\* {success: false, error}, never a success result
C16_NonOkResponseFailsBattle ==
  (nonOkResponse /\ returned # Absent) => ~Value(returned).success

\* the battle has started, or it did in this step
Started == pc = "idle" /\ pc' = "loop"

\* C18: in every state of a battle each combatant's current_hp is an integer
\* with 0 <= current_hp <= stats.hp; it equals stats.hp at battle_start and
\* never increases from one step of the battle to the next
C18_HpBoundedAndNonIncreasing ==
  [][ /\ InBattle' =>
           /\ pokemon1'.current_hp \in 0..pokemon1'.stats.hp
           /\ pokemon2'.current_hp \in 0..pokemon2'.stats.hp
      /\ Started =>
           /\ pokemon1'.current_hp = pokemon1'.stats.hp
           /\ pokemon2'.current_hp = pokemon2'.stats.hp
      /\ InBattle =>
           /\ pokemon1'.current_hp <= pokemon1.current_hp
           /\ pokemon2'.current_hp <= pokemon2.current_hp ]_vars

\* the battle is over; one combatant was brought to 0 by a hit larger than
\* what it had left, the other was hit and still stands
C18_Witness ==
  /\ pc = "done"
  /\ pokemon1.current_hp = 0
  /\ pokemon2.current_hp \in 1..(pokemon2.stats.hp - 1)

\* C24: in no reachable state of a battle are both combatants' current_hp
\* equal to 0: a turn ends as soon as one combatant faints, so the draw
\* outcome is reached only when the turn loop ends with both combatants at
\* the same positive current_hp
C24_NeverBothFainted ==
  /\ InBattle => ~(pokemon1.current_hp = 0 /\ pokemon2.current_hp = 0)
  /\ (pc = "done" /\ Value(battle_end).winner = "draw") =>
       /\ pokemon1.current_hp = pokemon2.current_hp
       /\ pokemon1.current_hp > 0

\* a battle ended in a draw after both combatants had lost hit points
C24_Witness ==
  /\ pc = "done"
  /\ Value(battle_end).winner = "draw"
  /\ pokemon1.current_hp < pokemon1.stats.hp
  /\ pokemon2.current_hp < pokemon2.stats.hp

\* the hit points the log reports last for combatant i: the remaining_hp of
\* the latest hit on it, or the hp of battle_start when it was never hit
LastReported(i) ==
  IF reportedHp[i] # Absent THEN Value(reportedHp[i])
  ELSE IF i = 1 THEN battleLog[1].pokemon1.hp
  ELSE battleLog[1].pokemon2.hp

\* C25: the log of a successful battle_pokemon call is battle_start, then the
\* turn entries numbered 1, 2, ..., n consecutively, then battle_end with
\* turns_simulated = n; only the last turn entry may contain a fainted
\* event; battle_end's pokemon1_hp and pokemon2_hp are the remaining_hp last
\* reported for each combatant, or its starting hp when it was never hit.
C25_BattleLogShape ==
  /\ (InBattle /\ pc # "done") =>
       /\ Len(battleLog) >= 1
       /\ battleLog[1].type = "battle_start"
       /\ \A i \in 2..Len(battleLog) :
            battleLog[i].type = "turn" /\ battleLog[i].turn = i - 1
  /\ (pc = "done" /\ Value(returned).success) =>
       LET n == Len(battleLog) - 2
           last == battleLog[Len(battleLog)]
       IN /\ n >= 0
          /\ battleLog[1].type = "battle_start"
          /\ \A i \in 1..n :
               battleLog[i + 1].type = "turn" /\ battleLog[i + 1].turn = i
          /\ last.type = "battle_end"
          /\ last.turns_simulated = n
          /\ \A i \in 1..(n - 1) : ~battleLog[i + 1].fainted
          /\ last.pokemon1_hp = LastReported(1)
          /\ last.pokemon2_hp = LastReported(2)

\* a battle of two turns was logged whose last turn has a fainted event,
\* after both combatants were hit
C25_Witness ==
  /\ pc = "done"
  /\ Value(returned).success
  /\ Len(battleLog) = 4
  /\ battleLog[3].fainted
  /\ reportedHp[1] # Absent
  /\ reportedHp[2] # Absent

\* the summary of the returned object
Summary == Value(returned).results[1]

\* the combatant that won: the one with the higher remaining current_hp
ActualWinner ==
  IF pokemon1.current_hp > pokemon2.current_hp THEN pokemon1 ELSE pokemon2

\* C26: for every pair of combatants, two of the same name included, the
\* remaining and the maximum HP that generateBattleSummary prints for the
\* winner are those of the combatant with the higher remaining current_hp.
C26_SummaryShowsWinnerHp ==
  (/\ pc = "done"
   /\ Value(returned).success
   /\ Value(battle_end).winner # "draw")
  => /\ Summary.remaining # Absent
     /\ Value(Summary.remaining).winnerHp = ActualWinner.current_hp
     /\ Value(Summary.remaining).winnerMaxHp = ActualWinner.stats.hp

\* the same, for combatants of different names
C26_DistinctNamesShowWinnerHp ==
  (/\ pc = "done"
   /\ Value(returned).success
   /\ Value(battle_end).winner # "draw"
   /\ pokemon1.name # pokemon2.name)
  => /\ Summary.remaining # Absent
     /\ Value(Summary.remaining).winnerHp = ActualWinner.current_hp
     /\ Value(Summary.remaining).winnerMaxHp = ActualWinner.stats.hp

\* a battle was logged in which one combatant was never hit
NeverHitLogged ==
  /\ pc = "done"
  /\ Len(battleLog) = 3
  /\ \E i \in 1..2 : reportedHp[i] = Absent /\ reportedHp[3 - i] # Absent

(***************************************************************************)
(* SpecDamage: calculateDamage on inputs drawn from bounded sets           *)
(***************************************************************************)
MaxTypes == 2
DamageTypes == {"normal", "ghost", "fire", "water"}

\* lists of distinct types, 1..MaxTypes long
TypeLists ==
  {t \in UNION {[1..k -> DamageTypes] : k \in 1..MaxTypes} :
     \A i, j \in DOMAIN t : i # j => t[i] # t[j]}

BaseStatProfiles ==
  { [hp |-> 1, attack |-> 5, defense |-> 230, special_attack |-> 0,
     special_defense |-> 20, speed |-> 5],
    [hp |-> 255, attack |-> 190, defense |-> 0, special_attack |-> 90,
     special_defense |-> 154, speed |-> 180] }

DamageMoves ==
  [name : {"move"}, power : {Absent, Some(0), Some(40), Some(150)},
   type : DamageTypes, damage_class : {"physical", "special"}]

DamagePokemon ==
  {fetchPokemonForBattle([name |-> "pokemon", types |-> t, base |-> b,
                          moves |-> << >>]) :
     t \in TypeLists, b \in BaseStatProfiles}

InitDamage ==
  /\ pc = "calculate"
  /\ pokemon1 \in DamagePokemon
  /\ pokemon2 \in DamagePokemon
  /\ pokemon1Move \in DamageMoves
  /\ pokemon2Move = Absent
  /\ input = Absent
  /\ maxTurns = 0
  /\ currentTurn = 0
  /\ turnEvents = << >>
  /\ result = Absent
  /\ damageSteps = << >>
  /\ battle_end = Absent
  /\ battleLog = << >>
  /\ reportedHp = <<Absent, Absent>>
  /\ ImportIdle
  /\ ToolsIdle
  /\ BuildIdle

\* one call calculateDamage(pokemon1, pokemon2, pokemon1Move)
Calculate ==
  /\ pc = "calculate"
  /\ \E r \in RandomDraws, crit \in BOOLEAN :
       /\ result' = calculateDamage(pokemon1, pokemon2, pokemon1Move, r, crit)
       /\ damageSteps' =
            IF movePower(pokemon1Move) = 0 THEN << >>
            ELSE damageTrace(pokemon1, pokemon2, pokemon1Move, r, crit)
  /\ pc' = "calculated"
  /\ UNCHANGED <<input, pokemon1, pokemon2, maxTurns, currentTurn,
                 pokemon1Move, pokemon2Move, turnEvents, battle_end,
                 battleLog, reportedHp>>
  /\ UNCHANGED importVars
  /\ UNCHANGED <<storeVars, callVars, build>>

NextDamage == Calculate

SpecDamage == InitDamage /\ [][NextDamage]_vars

(***************************************************************************)
(* Properties of calculateDamage (specification SpecDamage)                *)
(***************************************************************************)
\* the chart's factor for one defender type, doubled; 1 (doubled: 2) where
\* the chart has no entry
chartFactor2(moveType, defenderType) ==
  IF hasEntry(moveType, defenderType)
  THEN TYPE_EFFECTIVENESS[moveType][defenderType]
  ELSE 2

RECURSIVE chartProduct(_, _)
chartProduct(moveType, defenderTypes) ==
  IF defenderTypes = << >> THEN [n |-> 1, d |-> 1]
  ELSE LET p == chartProduct(moveType, Tail(defenderTypes))
       IN Reduce([n |-> p.n * chartFactor2(moveType, Head(defenderTypes)),
                  d |-> p.d * 2])

\* C3: for a move with power, the effectiveness returned is the product over
\* the defender's types of the chart entries (1 where there is none), so an
\* entry of 0 makes the effectiveness 0 and the damage 0
C3_EffectivenessIsChartProduct ==
  (pc = "calculated" /\ ~ZeroPower(pokemon1Move)) =>
    /\ result.effectiveness = chartProduct(pokemon1Move.type, pokemon2.types)
    /\ (\E i \in 1..Len(pokemon2.types) :
           chartFactor2(pokemon1Move.type, pokemon2.types[i]) = 0)
         => (result.effectiveness.n = 0 /\ result.damage = 0)

\* C5: the same-type attack bonus (times 1.5, floored) is applied exactly
\* when the attacker's type list contains the move's type; otherwise the
\* STAB step leaves the base damage unchanged
C5_StabIffTypeMatches ==
  (pc = "calculated" /\ ~ZeroPower(pokemon1Move)) =>
    IF pokemon1Move.type \in {pokemon1.types[i] : i \in 1..Len(pokemon1.types)}
    THEN damageSteps[2] = (damageSteps[1] * 3) \div 2
         /\ damageSteps[2] > damageSteps[1]
    ELSE damageSteps[2] = damageSteps[1]

\* the bonus was applied on account of the attacker's second type
C5_Witness ==
  /\ pc = "calculated"
  /\ Len(pokemon1.types) = 2
  /\ pokemon1.types[2] = pokemon1Move.type
  /\ ~ZeroPower(pokemon1Move)
  /\ damageSteps[2] > damageSteps[1]

\* C6: for combatants built by fetchPokemonForBattle the damage returned is a
\* non-negative integer, whatever the variance and critical-hit draws
C6_DamageIsNatural ==
  pc = "calculated" => result.damage \in Nat

\* a critical hit of a powered move from the weaker on the sturdier profile
C6_Witness ==
  /\ pc = "calculated"
  /\ result.isCritical
  /\ result.damage > 0
  /\ attackStat(pokemon1, pokemon1Move) < defenseStat(pokemon2, pokemon1Move)

\* the damage after the STAB and type-effectiveness steps, after the variance
\* step, and the damage returned, of the call that was made
AfterEffectiveness == damageSteps[3]
AfterVariance == damageSteps[4]

\* C23: for every positive-power move the damage returned by calculateDamage
\* lies between floor(0.85 * D) and floor(1.5 * D), D being the damage after
\* the STAB and type-effectiveness steps: the variance factor is one of the
\* integer percentages 85..100, and the result exceeds D only when the hit
\* is critical
C23_DamageWithinVariance ==
  (pc = "calculated" /\ pokemon1Move.power # Absent
     /\ Value(pokemon1Move.power) > 0) =>
    /\ (AfterEffectiveness * 85) \div 100 <= result.damage
    /\ result.damage <= (AfterEffectiveness * 3) \div 2
    /\ \E percent \in 85..100 :
         AfterVariance = (AfterEffectiveness * percent) \div 100
    /\ result.damage > AfterEffectiveness => result.isCritical

\* a critical hit at full variance: the damage returned is floor(1.5 * D)
\* and exceeds D
C23_Witness ==
  /\ pc = "calculated"
  /\ pokemon1Move.power # Absent
  /\ Value(pokemon1Move.power) > 0
  /\ result.isCritical
  /\ result.damage = (AfterEffectiveness * 3) \div 2
  /\ result.damage > AfterEffectiveness

(***************************************************************************)
(* The tools of opencontrol/src/tools.ts.                                  *)
(*                                                                         *)
(* A text that the program inspects (a query, a name, a search term) is a  *)
(* sequence of one-character strings.  The result of a query is the set of *)
(* its rows; the list the tool returns is an enumeration of that set in an *)
(* order the ORDER BY clause allows.                                       *)
(***************************************************************************)
\* String.prototype.toLowerCase, on the letters the texts below use
Upper == <<"A", "C", "D", "E", "F", "K", "L", "M", "O", "R", "S", "T", "U", "W">>
Lower == <<"a", "c", "d", "e", "f", "k", "l", "m", "o", "r", "s", "t", "u", "w">>

lowerChar(c) ==
  IF \E i \in DOMAIN Upper : Upper[i] = c
  THEN Lower[CHOOSE i \in DOMAIN Upper : Upper[i] = c]
  ELSE c

toLowerCase(text) == [i \in 1..Len(text) |-> lowerChar(text[i])]

WhiteSpace == {" ", "\n", "\t"}

\* String.prototype.trim
RECURSIVE trimStart(_)
trimStart(text) ==
  IF text # << >> /\ Head(text) \in WhiteSpace THEN trimStart(Tail(text))
  ELSE text

RECURSIVE trimEnd(_)
trimEnd(text) ==
  IF text # << >> /\ text[Len(text)] \in WhiteSpace
  THEN trimEnd(SubSeq(text, 1, Len(text) - 1))
  ELSE text

trim(text) == trimEnd(trimStart(text))

\* String.prototype.startsWith
startsWith(text, prefix) ==
  Len(text) >= Len(prefix) /\ SubSeq(text, 1, Len(prefix)) = prefix

SelectWord == <<"s", "e", "l", "e", "c", "t">>

\* the lists a tool may return for a set of rows, in any order
Enumerations(rows) ==
  {list \in [1..Cardinality(rows) -> rows] : Range(list) = rows}

\* variant: no query is rejected
rejected_never(query) == FALSE

\* if (!input.query.trim().toLowerCase().startsWith('select')) throw ...
rejected(query) == ~startsWith(toLowerCase(trim(query.text)), SelectWord)

\* db.prepare(input.query) followed by stmt.all(): what SQLite does with the
\* text.  query.effect names it: "select_rooms" reads the rooms table,
\* "delete_talk_speakers" empties talk_speakers, "error" is a text SQLite
\* does not accept.
execute(d, query) ==
  CASE query.effect = "select_rooms" ->
         [ok |-> TRUE, rows |-> d.rooms, db |-> d]
    [] query.effect = "delete_talk_speakers" ->
         [ok |-> TRUE, rows |-> {}, db |-> [d EXCEPT !.talk_speakers = {}]]
    [] OTHER ->
         [ok |-> FALSE, rows |-> {}, db |-> d]

\* LEFT JOIN rooms / tracks: the name of the row with that id, or NULL
joinedName(rows, id) ==
  IF \E r \in rows : Some(r.id) = id
  THEN Some((CHOOSE r \in rows : Some(r.id) = id).name)
  ELSE Absent

\* SELECT t.*, s.name, r.name, tr.name FROM talks t JOIN talk_speakers ts ...
\* JOIN speakers s ... LEFT JOIN rooms r ... LEFT JOIN tracks tr ...
\* WHERE ts.speaker_code = ?
talksBySpeaker(d, speaker_code) ==
  { [id |-> t.id, code |-> t.code, room |-> t.room, track |-> t.track,
     speaker_name |-> s.name,
     room_name |-> joinedName(d.rooms, Some(t.room)),
     track_name |-> joinedName(d.tracks, t.track)] :
    <<t, s>> \in
      {pair \in d.talks \X d.speakers :
         /\ pair[2].code = speaker_code
         /\ \E ts \in d.talk_speakers :
              /\ ts.talk_id = Some(pair[1].id)
              /\ ts.speaker_code = pair[2].code} }

\* SELECT t.*, r.name, tr.name FROM talks t JOIN rooms r ON t.room = r.id
\* LEFT JOIN tracks tr ... WHERE t.room = ?
talksByRoom(d, room_id) ==
  { [id |-> t.id, code |-> t.code, room |-> t.room, track |-> t.track,
     room_name |-> joinedName(d.rooms, Some(t.room)),
     track_name |-> joinedName(d.tracks, t.track)] :
    t \in {u \in d.talks :
             u.room = room_id /\ \E r \in d.rooms : r.id = u.room} }

\* variant: an empty result is reported as an error
listResult_emptyIsError(results) ==
  IF Len(results) = 0 THEN Failure ELSE Success(results)

\* if (results.length === 0) return {success: true, message, results: []}
\* return {success: true, results}
listResult(results) ==
  IF Len(results) = 0 THEN Success(<< >>) ELSE Success(results)

\* The Pokemon the API knows: /pokemon/{id or name} answers 200 with the
\* document of the species when there is one, 404 otherwise, and may answer
\* with a non-2xx status for any request.
Species == { [id |-> 89,  name |-> <<"m", "u", "k">>],
             [id |-> 151, name |-> <<"m", "e", "w">>] }

\* fetchPokeAPI(`/pokemon/${key}`): the document, or Absent when it throws
\* (response.ok is false).  key is pokemonIdOrName.toString().toLowerCase():
\* the digits of a number stand for the id, a text for the name.
fetchPokeAPI(key, responseOk) ==
  LET found == {p \in Species :
                  \/ key.kind = "number" /\ p.id = key.value
                  \/ key.kind = "string" /\ p.name = key.value}
  IN IF responseOk /\ found # {} THEN Some(CHOOSE p \in found : TRUE)
     ELSE Absent

\* validatePokemon: {id, name} of the document, null when fetchPokeAPI throws
validatePokemon(pokemonIdOrName, responseOk) ==
  fetchPokeAPI(IF pokemonIdOrName.kind = "string"
               THEN [pokemonIdOrName EXCEPT !.value = toLowerCase(@)]
               ELSE pokemonIdOrName,
               responseOk)

\* input.nickname || null: a missing and an empty nickname are stored as NULL
nicknameOrNull(nickname) ==
  IF nickname = Absent \/ nickname = Some(<< >>) THEN Absent ELSE nickname

DefaultUser == "default_user"

\* variant: id INTEGER PRIMARY KEY without AUTOINCREMENT, one more than the
\* largest id the table holds now
autoincrement_maxRowid(rows, seq) == nextRowid(rows)

\* id INTEGER PRIMARY KEY AUTOINCREMENT: one more than the largest id the
\* table ever held (sqlite_sequence) and than the largest it holds now
autoincrement(rows, seq) ==
  Max(seq, IF rows = {} THEN 0 ELSE MaxOf({r.id : r \in rows})) + 1

\* variant: the row is stored for the user named in the call
insertCaught_forUser(rows, seq, pokemon, nickname, now) ==
  rows \cup {[id |-> autoincrement(rows, seq), pokemon_id |-> pokemon.id,
              pokemon_name |-> pokemon.name, user_id |-> "ash",
              caught_at |-> now, nickname |-> nicknameOrNull(nickname)]}

\* INSERT INTO caught_pokemon (pokemon_id, pokemon_name, nickname, location,
\* level) VALUES (...): id is AUTOINCREMENT, user_id and caught_at take their
\* defaults
insertCaught(rows, seq, pokemon, nickname, now) ==
  rows \cup {[id |-> autoincrement(rows, seq), pokemon_id |-> pokemon.id,
              pokemon_name |-> pokemon.name, user_id |-> DefaultUser,
              caught_at |-> now, nickname |-> nicknameOrNull(nickname)]}

\* CURRENT_TIMESTAMP, in seconds: not before the latest row's, and a catch in
\* the same second gets the same value
Timestamps(rows) ==
  LET latest == IF rows = {} THEN 1 ELSE MaxOf({r.caught_at : r \in rows})
  IN {latest, latest + 1}

\* variant: the id is not compared
caughtById_anyId(rows, id) == {r \in rows : r.user_id = DefaultUser}

\* SELECT ... FROM caught_pokemon WHERE id = ? AND user_id = 'default_user'
caughtById(rows, id) == {r \in rows : r.id = id /\ r.user_id = DefaultUser}

\* variant: every row of the species is deleted
deleteCaught_bySpecies(rows, id) ==
  {r \in rows : \A x \in caughtById(rows, id) : r.pokemon_id # x.pokemon_id}

\* DELETE FROM caught_pokemon WHERE id = ? AND user_id = 'default_user'
deleteCaught(rows, id) == rows \ caughtById(rows, id)

\* SELECT * FROM caught_pokemon WHERE user_id = 'default_user'
selectCaught(rows) == {r \in rows : r.user_id = DefaultUser}

\* text LIKE pattern: % matches any run of characters, _ any one character,
\* letters match without regard to case
RECURSIVE like(_, _)
like(text, pattern) ==
  IF pattern = << >> THEN text = << >>
  ELSE IF Head(pattern) = "%"
       THEN \/ like(text, Tail(pattern))
            \/ text # << >> /\ like(Tail(text), pattern)
  ELSE /\ text # << >>
       /\ \/ Head(pattern) = "_"
          \/ lowerChar(Head(pattern)) = lowerChar(Head(text))
       /\ like(Tail(text), Tail(pattern))

\* const searchTerm = `%${input.search_term.toLowerCase()}%`
searchPattern(search_term) == <<"%">> \o toLowerCase(search_term) \o <<"%">>

\* WHERE (LOWER(pokemon_name) LIKE ? OR LOWER(nickname) LIKE ?) AND
\* user_id = 'default_user'; LOWER(NULL) LIKE ? is NULL, which is not true
searchCaught(rows, search_term) ==
  {r \in rows :
     /\ \/ like(toLowerCase(r.pokemon_name), searchPattern(search_term))
        \/ /\ r.nickname # Absent
           /\ like(toLowerCase(Value(r.nickname)), searchPattern(search_term))
     /\ r.user_id = DefaultUser}

\* ORDER BY caught_at DESC: the lists the query may return for these rows
OrderedByCaughtAtDesc(rows) ==
  {list \in Enumerations(rows) :
     \A i \in 1..Len(list), j \in 1..Len(list) :
       i < j => list[i].caught_at >= list[j].caught_at}

(***************************************************************************)
(* SpecTools: the tools are invoked one after the other, in any order, on  *)
(* a schedule.db that the importer has filled.                             *)
(***************************************************************************)
MaxCatches == 2

\* the feeds schedule.db was built from: an empty one, and one with a room,
\* a track, a speaker and two talks, one of them with the speaker
ScheduleFeeds ==
  { EmptyFeed,
    [rooms |-> << [id |-> Some(1), name |-> Str("Hall A")] >>,
     tracks |-> << [id |-> Some(1), name |-> Loc("PyData")] >>,
     speakers |-> << [code |-> "SPK1", name |-> "Ada"] >>,
     talks |-> << [id |-> Some(1), code |-> Some("TALK1"), room |-> 1,
                   track |-> Some(1), speakers |-> <<"SPK1">>],
                  [id |-> Some(2), code |-> Absent, room |-> 1,
                   track |-> Absent, speakers |-> << >>] >>] }

Queries ==
  { [text |-> <<"S", "E", "L", "E", "C", "T", " ", "*", " ",
                "F", "R", "O", "M", " ", "r", "o", "o", "m", "s">>,
     effect |-> "select_rooms"],
    [text |-> <<" ", "\n", "s", "e", "l", "e", "c", "t", " ", "*", " ",
                "f", "r", "o", "m", " ", "r", "o", "o", "m", "s", " ">>,
     effect |-> "select_rooms"],
    [text |-> <<"s", "e", "l", "e", "c", "t", "e", "d">>,
     effect |-> "error"],
    [text |-> <<"S", "E", "L", "E", "C", " ", "1">>,
     effect |-> "error"],
    [text |-> <<" ", "D", "E", "L", "E", "T", "E", " ", "F", "R", "O", "M", " ",
                "t", "a", "l", "k", "_", "s", "p", "e", "a", "k", "e", "r", "s">>,
     effect |-> "delete_talk_speakers"] }

SpeakerCodes == {"SPK1", "SPK9"}
RoomIds == {1, 9}
CatchArgs == { [kind |-> "number", value |-> 89],
               [kind |-> "number", value |-> 0],
               [kind |-> "string", value |-> <<"M", "e", "w">>] }
Nicknames == {Absent, Some(<< >>), Some(<<"M", "u">>)}
SearchTerms == { <<"M", "U">>, <<"e", "w">>, <<"z">> }

InitTools ==
  /\ pc = "tools"
  /\ BattleIdle
  /\ \E data \in ScheduleFeeds : db = insertScheduleData(EmptyDb, data).db
  /\ feed = EmptyFeed
  /\ importRuns = [count |-> 0, onFeed |-> 0, succeeded |-> FALSE]
  /\ ToolsIdle
  /\ BuildIdle

\* the record of an invocation; prepared: db.prepare was called with the
\* text of the caller
Invoke(tool, arg, prepared) ==
  Some([tool |-> tool, arg |-> arg, prepared |-> prepared])

\* what no tool touches
ToolFrame ==
  /\ UNCHANGED <<pc, feed, importRuns, build>>
  /\ UNCHANGED battleVars

\* sqlite_schedule_read.run
sqlite_schedule_read ==
  /\ \E query \in Queries :
       IF rejected(query)
       THEN /\ call' = Invoke("sqlite_schedule_read", query, FALSE)
            /\ returned' = Thrown
            /\ db' = db
       ELSE LET outcome == execute(db, query)
            IN /\ call' = Invoke("sqlite_schedule_read", query, TRUE)
               /\ db' = outcome.db
               /\ IF outcome.ok
                  THEN \E results \in Enumerations(outcome.rows) :
                         returned' = Success(results)
                  ELSE returned' = Failure
  /\ nonOkResponse' = FALSE
  /\ UNCHANGED storeVars
  /\ ToolFrame

\* get_talks_by_speaker.run
get_talks_by_speaker ==
  /\ \E speaker_code \in SpeakerCodes :
       /\ call' = Invoke("get_talks_by_speaker", speaker_code, FALSE)
       /\ \E results \in Enumerations(talksBySpeaker(db, speaker_code)) :
            returned' = listResult(results)
  /\ nonOkResponse' = FALSE
  /\ UNCHANGED <<db, storeVars>>
  /\ ToolFrame

\* get_talks_by_room.run
get_talks_by_room ==
  /\ \E room_id \in RoomIds :
       /\ call' = Invoke("get_talks_by_room", room_id, FALSE)
       /\ \E results \in Enumerations(talksByRoom(db, room_id)) :
            returned' = listResult(results)
  /\ nonOkResponse' = FALSE
  /\ UNCHANGED <<db, storeVars>>
  /\ ToolFrame

\* pokemon_read.run, for an endpoint /pokemon/{id or name}
pokemon_read ==
  /\ \E key \in CatchArgs, responseOk \in BOOLEAN :
       LET results == fetchPokeAPI(key, responseOk)
       IN /\ call' = Invoke("pokemon_read", key, FALSE)
          /\ nonOkResponse' = (results = Absent)
          /\ returned' = IF results = Absent THEN Failure
                         ELSE Success(<<Value(results)>>)
  /\ UNCHANGED <<db, storeVars>>
  /\ ToolFrame

\* catch_pokemon.run
catch_pokemon ==
  /\ sqlite_sequence < MaxCatches
  /\ \E who \in CatchArgs, nickname \in Nicknames, responseOk \in BOOLEAN :
       LET pokemon == validatePokemon(who, responseOk)
       IN /\ call' = Invoke("catch_pokemon",
                            [pokemon_id_or_name |-> who, nickname |-> nickname],
                            FALSE)
          /\ nonOkResponse' = (pokemon = Absent)
          /\ IF pokemon = Absent
             THEN /\ returned' = Failure
                  /\ UNCHANGED storeVars
             ELSE /\ \E now \in Timestamps(caught_pokemon) :
                       caught_pokemon' =
                         insertCaught(caught_pokemon, sqlite_sequence,
                                      Value(pokemon), nickname, now)
                  \* sqlite_sequence keeps the largest id given so far
                  /\ sqlite_sequence' =
                       Max(sqlite_sequence,
                           autoincrement(caught_pokemon, sqlite_sequence))
                  /\ returned' = Success(<<Value(pokemon)>>)
  /\ UNCHANGED db
  /\ ToolFrame

\* get_caught_pokemon.run
get_caught_pokemon ==
  /\ call' = Invoke("get_caught_pokemon", Absent, FALSE)
  /\ \E results \in OrderedByCaughtAtDesc(selectCaught(caught_pokemon)) :
       returned' = listResult(results)
  /\ nonOkResponse' = FALSE
  /\ UNCHANGED <<db, storeVars>>
  /\ ToolFrame

\* release_pokemon.run
release_pokemon ==
  /\ \E pokemon_id \in 0..MaxCatches :
       /\ call' = Invoke("release_pokemon", pokemon_id, FALSE)
       /\ IF caughtById(caught_pokemon, pokemon_id) = {}
          THEN /\ returned' = Failure
               /\ UNCHANGED caught_pokemon
          ELSE /\ caught_pokemon' = deleteCaught(caught_pokemon, pokemon_id)
               /\ returned' = Success(<< >>)
  /\ nonOkResponse' = FALSE
  /\ UNCHANGED <<db, sqlite_sequence>>
  /\ ToolFrame

\* search_caught_pokemon.run
search_caught_pokemon ==
  /\ \E search_term \in SearchTerms :
       /\ call' = Invoke("search_caught_pokemon", search_term, FALSE)
       /\ \E results \in
            OrderedByCaughtAtDesc(searchCaught(caught_pokemon, search_term)) :
            returned' = listResult(results)
  /\ nonOkResponse' = FALSE
  /\ UNCHANGED <<db, storeVars>>
  /\ ToolFrame

NextTools ==
  \/ sqlite_schedule_read
  \/ get_talks_by_speaker
  \/ get_talks_by_room
  \/ pokemon_read
  \/ catch_pokemon
  \/ get_caught_pokemon
  \/ release_pokemon
  \/ search_caught_pokemon

SpecTools == InitTools /\ [][NextTools]_vars

(***************************************************************************)
(* Properties of the tools (specification SpecTools)                       *)
(***************************************************************************)
\* the invocation that this step is, and what it gave its caller
Invoked(tool) == call' # Absent /\ Value(call').tool = tool
Succeeded == Value(returned').kind = "return" /\ Value(returned').success

\* C11: every tool invocation that fails, for any tool and any cause, ends by
\* returning {success: false, error}; no tool's run function ends by throwing
\* an exception to its caller
C11_NoToolThrows ==
  returned # Absent => Value(returned).kind = "return"

\* the text, trimmed and lower-cased, does not begin with "select"
NotSelect(text) ==
  LET t == toLowerCase(trim(text))
  IN ~(Len(t) >= 6 /\ SubSeq(t, 1, 6) = <<"s", "e", "l", "e", "c", "t">>)

\* C12: sqlite_schedule_read rejects every query that is not a SELECT
\* statement: when the trimmed, lower-cased query does not begin with
\* "select", no statement is prepared or executed and the database is left
\* unchanged
C12_NonSelectRejected ==
  [][ (Invoked("sqlite_schedule_read") /\ NotSelect(Value(call').arg.text)) =>
        /\ ~Value(call').prepared
        /\ db' = db
        /\ caught_pokemon' = caught_pokemon
        /\ sqlite_sequence' = sqlite_sequence ]_vars

\* a DELETE was given to sqlite_schedule_read while talk_speakers had rows
C12_Witness ==
  /\ call # Absent
  /\ Value(call).tool = "sqlite_schedule_read"
  /\ Value(call).arg.effect = "delete_talk_speakers"
  /\ NotSelect(Value(call).arg.text)
  /\ db.talk_speakers # {}

\* C13: for get_talks_by_speaker, get_talks_by_room, get_caught_pokemon and
\* search_caught_pokemon a lookup that matches no row is reported as a
\* success: the tool returns success: true with results the empty list
C13_EmptyLookupSucceeds ==
  [][ /\ ( /\ Invoked("get_talks_by_speaker")
           /\ talksBySpeaker(db, Value(call').arg) = {} )
           => returned' = Success(<< >>)
      /\ ( /\ Invoked("get_talks_by_room")
           /\ talksByRoom(db, Value(call').arg) = {} )
           => returned' = Success(<< >>)
      /\ ( /\ Invoked("get_caught_pokemon")
           /\ selectCaught(caught_pokemon) = {} )
           => returned' = Success(<< >>)
      /\ ( /\ Invoked("search_caught_pokemon")
           /\ searchCaught(caught_pokemon, Value(call').arg) = {} )
           => returned' = Success(<< >>) ]_vars

\* a search found nothing among the rows of a store that is not empty
C13_Witness ==
  /\ call # Absent
  /\ Value(call).tool = "search_caught_pokemon"
  /\ caught_pokemon # {}
  /\ searchCaught(caught_pokemon, Value(call).arg) = {}
  /\ returned = Success(<< >>)

\* C14: the caught-Pokemon store is an append/delete list: each successful
\* catch_pokemon adds exactly one row and changes no other row, each
\* successful release_pokemon removes exactly the row with the given id and
\* changes no other row, and get_caught_pokemon returns exactly the rows
\* caught and not yet released
C14_AppendDeleteList ==
  [][ /\ (Invoked("catch_pokemon") /\ Succeeded) =>
           /\ caught_pokemon \subseteq caught_pokemon'
           /\ Cardinality(caught_pokemon' \ caught_pokemon) = 1
      /\ (Invoked("release_pokemon") /\ Succeeded) =>
           /\ caught_pokemon' \subseteq caught_pokemon
           /\ Cardinality(caught_pokemon \ caught_pokemon') = 1
           /\ \A r \in caught_pokemon \ caught_pokemon' :
                r.id = Value(call').arg
      /\ Invoked("get_caught_pokemon") =>
           /\ caught_pokemon' = caught_pokemon
           /\ Succeeded
           /\ Range(Value(returned').results) = caught_pokemon
           /\ Len(Value(returned').results) = Cardinality(caught_pokemon) ]_vars

\* two Pokemon of one species were caught and one of them was released
C14_Witness ==
  /\ call # Absent
  /\ Value(call).tool = "release_pokemon"
  /\ Value(returned).success
  /\ sqlite_sequence = 2
  /\ \E r \in caught_pokemon : r.pokemon_id = 89 /\ r.id # Value(call).arg

\* C17: every row of caught_pokemon has user_id 'default_user', and
\* get_caught_pokemon, search_caught_pokemon and release_pokemon read or
\* delete only rows with that user_id
C17_SingleUser ==
  [][ /\ \A r \in caught_pokemon' : r.user_id = "default_user"
      /\ ( /\ Invoked("get_caught_pokemon") \/ Invoked("search_caught_pokemon")
           /\ Succeeded )
           => \A i \in 1..Len(Value(returned').results) :
                Value(returned').results[i].user_id = "default_user"
      /\ Invoked("release_pokemon") =>
           \A r \in caught_pokemon \ caught_pokemon' :
             r.user_id = "default_user" ]_vars

\* the store holds rows, get_caught_pokemon has just listed two of them
C17_Witness ==
  /\ call # Absent
  /\ Value(call).tool = "get_caught_pokemon"
  /\ Len(Value(returned).results) = 2
  /\ caught_pokemon # {}

\* the validation of the catch_pokemon call of this step failed
ValidationFails == Invoked("catch_pokemon") /\ nonOkResponse'

\* the release_pokemon call of this step names an id that no row carries
ReleaseMatchesNoRow ==
  /\ Invoked("release_pokemon")
  /\ \A r \in caught_pokemon : r.id # Value(call').arg

\* C21: a catch_pokemon call whose Pokemon fails validation and a
\* release_pokemon call whose id matches no caught row both return
\* success: false and leave the caught_pokemon table unchanged
C21_FailedCallChangesNothing ==
  [][ (ValidationFails \/ ReleaseMatchesNoRow) =>
        /\ returned' = Failure
        /\ caught_pokemon' = caught_pokemon
        /\ sqlite_sequence' = sqlite_sequence ]_vars

\* release_pokemon was given the id of a row released before, while the
\* store held another row; it failed
C21_Witness ==
  /\ call # Absent
  /\ Value(call).tool = "release_pokemon"
  /\ returned = Failure
  /\ Value(call).arg \in 1..sqlite_sequence
  /\ caught_pokemon # {}
  /\ \A r \in caught_pokemon : r.id # Value(call).arg

\* C22: row ids of the store are auto-incrementing: each newly caught row
\* gets an id strictly greater than every id assigned before it, so the id
\* of a released Pokemon is never given to a later catch
C22_IdsNeverReused ==
  [][ /\ \A r \in caught_pokemon' : r.id <= sqlite_sequence'
      /\ sqlite_sequence' >= sqlite_sequence
      /\ (Invoked("catch_pokemon") /\ Succeeded) =>
           \A r \in caught_pokemon' \ caught_pokemon :
             /\ r.id > sqlite_sequence
             /\ \A x \in caught_pokemon : r.id > x.id ]_vars

\* a Pokemon was caught after the row with id 1 had been released
C22_Witness ==
  /\ call # Absent
  /\ Value(call).tool = "catch_pokemon"
  /\ Value(returned).success
  /\ \E r \in caught_pokemon : r.id = 2
  /\ \A r \in caught_pokemon : r.id # 1

=============================================================================
